---- MODULE Spec2Model ----
(***************************************************************************)
(* Model of internal/trace/trace.go: the bounded channel `buffer`, the    *)
(* middleware's non-blocking send, the single worker goroutine            *)
(* (startWorker) with its reused slice `buf`, and the writer goroutines   *)
(* spawned by flush (retry loop + flushWithRetry chunk loop).             *)
(*                                                                         *)
(* Records are the integers 1..MaxRecords in submission order.  The slice *)
(* `buf` is modelled as Go implements it: a backing array (bufArr) plus a *)
(* length (bufLen).  `flush(db, buf)` passes the slice header by value,   *)
(* so a writer goroutine holds (same backing array, its own length n) and *)
(* reads the array when it performs a chunk write.                        *)
(***************************************************************************)
EXTENDS Integers, Sequences, FiniteSets, TLC

\* ---- bounds of the model ------------------------------------------------
MaxRecords == 3      \* number of requests that reach the send statement
BufferSize == 2      \* cfg.BufferSize
BatchSize == 3       \* cfg.BatchSize (>= 1)
MaxStarts == 2       \* number of calls of Start (StartSpec)

\* ---- program constants --------------------------------------------------
MaxRetries == 3      \* maxRetries := 3
\* The chunk limit of flushWithRetry is 500 in the source; the model scales
\* it down to 2 so that a batch of BatchSize records spans several chunks.
MaxChunkSize == 2
BaseDelay == 1       \* time.Second, the unit of the backoff sleeps
SourceChunkLimit == 500   \* the chunk limit as written in flushWithRetry

NoRecord == 0
Records == 1..MaxRecords

Min(a, b) == IF a < b THEN a ELSE b

VARIABLES
    made,        \* the package variable `buffer` is not nil (Start has run make)
    buffer,      \* contents of the channel `buffer` (FIFO)
    closed,      \* the channel has been closed (shutdown signal)
    orphaned,    \* records left in channels that a later Start replaced
    nextId,      \* next record a middleware call will build
    accepted,    \* history: records the channel accepted, in order
    dropped,     \* history: records that took the default branch
    panicked,    \* a send statement panicked in the request path
    workers,     \* startWorker goroutines, in launch order
    lastEvent,   \* the select case a worker took last
    tasks,       \* writer goroutines, in spawn order
    store,       \* store[r] = number of times record r was inserted
    atClose,     \* history: buf then buffer contents when the channel closed
    starts,      \* calls of Start so far
    startRes,    \* what the last call of Start returned
    req          \* the request the middleware is handling, or the last one

chanVars == <<made, buffer, closed, orphaned>>
prodVars == <<nextId, accepted, dropped, panicked, req>>
startVars == <<starts, startRes>>

vars == <<chanVars, prodVars, workers, lastEvent, tasks, store, atClose, startVars>>

\* cap(buf) after make([]Step, 0, batchSize*2)
BufCap == BatchSize * 2

\* logs[lo:hi] of a slice that shares the worker's backing array
Slice(arr, lo, hi) == [k \in 1..(hi - lo) |-> arr[lo + k]]

\* a startWorker goroutine: its position, and its local slice buf as a
\* backing array (arr) and a length (len)
NewWorker ==
    [ pc  |-> "select",         \* "select" while it loops, "done" after return
      arr |-> [k \in 1..BufCap |-> NoRecord],
      len |-> 0 ]

\* the first worker launched: the only one when Start is called once
workerPc == workers[1].pc
bufArr == workers[1].arr
bufLen == workers[1].len

\* the slice buf as a sequence: bufArr[0:bufLen]
buf == [i \in 1..bufLen |-> bufArr[i]]

\* the slice buf of worker w
BufOf(w) == Slice(workers[w].arr, 0, workers[w].len)

RECURSIVE Flatten(_)
Flatten(ss) == IF ss = << >> THEN << >> ELSE Head(ss) \o Flatten(Tail(ss))

\* the batches in progress of the workers that are running
BatchesInProgress ==
    Flatten([w \in 1..Len(workers) |->
                IF workers[w].pc = "select" THEN BufOf(w) ELSE << >>])

\* ---- flush: spawn of the writer goroutine --------------------------------
NewTask(w, logs) ==
    [ w        |-> w,           \* the worker whose backing array logs points into
      n        |-> Len(logs),   \* len(logs) of the slice header passed
      handoff  |-> logs,        \* history: what the slice held at the go statement
      attempt  |-> 1,
      i        |-> 0,           \* loop variable of flushWithRetry
      pc       |-> "write",
      calls    |-> 0,           \* flushWithRetry invocations started
      delays   |-> << >>,       \* time.Sleep arguments, in seconds
      chunks   |-> << >>,       \* <<i, end>> of the chunk writes of this attempt
      okLogs   |-> 0,
      logged   |-> 0,           \* the count printed by the success log
      failLogs |-> 0,
      outcome  |-> "none" ]

\* mutant: a batch of one record is treated as empty
flushDropsSingle(ts, w, logs) ==
    IF Len(logs) <= 1 THEN ts ELSE Append(ts, NewTask(w, logs))

\* mutant: at most one writer goroutine at a time; a batch that arrives while
\* one is live is not handed over
flushCapped(ts, w, logs) ==
    IF Len(logs) = 0 \/ \E t \in 1..Len(ts) : ts[t].pc # "done"
      THEN ts ELSE Append(ts, NewTask(w, logs))

flush(ts, w, logs) ==
    IF Len(logs) = 0 THEN ts ELSE Append(ts, NewTask(w, logs))

\* ---- middleware: select { case buffer <- step: default: } ---------------
\* the send case is ready: the channel made with cap BufferSize has room
\* mutant: room is tested against one slot too many
CanSendOffByOne(q) == Len(q) <= BufferSize

CanSend(q) == Len(q) < BufferSize

\* The send statement as Go executes it: on a nil channel the send case is
\* never ready and default runs; on a closed channel the send case panics,
\* whether or not the channel is full; otherwise the record is enqueued if
\* there is room and default runs if there is none.  The package variable is
\* read and the channel operation done in one step.
SendStep ==
    /\ nextId <= MaxRecords
    /\ nextId' = nextId + 1
    /\ CASE ~made ->
              /\ dropped' = dropped \cup {nextId}
              /\ UNCHANGED <<buffer, accepted, panicked>>
         [] made /\ closed ->
              /\ panicked' = TRUE
              /\ UNCHANGED <<buffer, accepted, dropped>>
         [] made /\ ~closed /\ CanSend(buffer) ->
              /\ buffer' = Append(buffer, nextId)
              /\ accepted' = Append(accepted, nextId)
              /\ UNCHANGED <<dropped, panicked>>
         [] made /\ ~closed /\ ~CanSend(buffer) ->
              /\ dropped' = dropped \cup {nextId}
              /\ UNCHANGED <<buffer, accepted, panicked>>
    /\ UNCHANGED <<made, closed, orphaned, workers, lastEvent, tasks, store,
                   atClose, startVars>>

\* mutant: a plain `buffer <- step` without the default case
SubmitBlocking ==
    /\ ~closed
    /\ made
    /\ nextId <= MaxRecords
    /\ Len(buffer) < BufferSize
    /\ nextId' = nextId + 1
    /\ buffer' = Append(buffer, nextId)
    /\ accepted' = Append(accepted, nextId)
    /\ UNCHANGED <<made, closed, orphaned, dropped, panicked, req, workers,
                   lastEvent, tasks, store, atClose, startVars>>

\* a request that is traced, handled in one step (handler chain, then the
\* send) while producers exist (before the shutdown signal)
Submit ==
    /\ ~closed
    /\ SendStep
    /\ UNCHANGED req

\* a traced request handled after the channel was closed
SubmitAfterClose ==
    /\ closed
    /\ SendStep
    /\ UNCHANGED req

\* ---- middleware, branch by branch ----------------------------------------
\* the values an extractor can return
Idents == {"", "id"}

\* no request has reached the middleware yet
NoRequest ==
    [ pc |-> "idle", filter |-> FALSE, userID |-> "", token |-> "",
      nexts |-> 0, attempts |-> 0 ]

\* the branch the handler takes: if !config.Filter(c) {...};
\* if userID == "" || token == "" {...}; otherwise the request is traced
\* mutant: the identity test needs both values to be empty (&& for ||)
TracedEitherIdent(filter, userID, token) ==
    IF ~filter THEN FALSE
    ELSE IF userID = "" /\ token = "" THEN FALSE
    ELSE TRUE

Traced(filter, userID, token) ==
    IF ~filter THEN FALSE
    ELSE IF userID = "" \/ token = "" THEN FALSE
    ELSE TRUE

\* a request enters the handler: Filter and the extractors return their
\* values and the handler reaches the c.Next() of its branch.  Requests are
\* taken one at a time; the worker and the writers run in between.  A traced
\* request builds a record, of which there are MaxRecords.
MwEnter(filter, userID, token) ==
    /\ req.pc \in {"idle", "done"}
    /\ Traced(filter, userID, token) => nextId <= MaxRecords
    /\ req' = [ pc |-> "next", filter |-> filter, userID |-> userID,
                token |-> token, nexts |-> 0, attempts |-> 0 ]
    /\ UNCHANGED <<chanVars, nextId, accepted, dropped, panicked, workers,
                   lastEvent, tasks, store, atClose, startVars>>

MwRequest == \E f \in BOOLEAN, u \in Idents, k \in Idents : MwEnter(f, u, k)

\* c.Next() runs the rest of the handler chain and returns; in the two
\* untraced branches the handler then returns
MwChain ==
    /\ req.pc = "next"
    /\ req' = [req EXCEPT !.nexts = @ + 1,
                          !.pc = IF Traced(req.filter, req.userID, req.token)
                                   THEN "send" ELSE "done"]
    /\ UNCHANGED <<chanVars, nextId, accepted, dropped, panicked, workers,
                   lastEvent, tasks, store, atClose, startVars>>

\* the record is built and the select with the send case runs
MwSend ==
    /\ req.pc = "send"
    /\ SendStep
    /\ req' = [req EXCEPT !.attempts = @ + 1, !.pc = "done"]

\* ---- shutdown signal: the channel is closed, no more producers ----------
\* No statement of the package closes the channel; the event is the shutdown
\* signal of the design ("queue closed, no more producers") that the !ok
\* branch of startWorker handles.
Close ==
    /\ made
    /\ ~closed
    /\ closed' = TRUE
    /\ atClose' = BatchesInProgress \o buffer
    /\ UNCHANGED <<made, buffer, orphaned, prodVars, workers, lastEvent,
                   tasks, store, startVars>>

\* ---- Start ---------------------------------------------------------------
\* Start(cfg) returning res: the channel is replaced first; cfg.DB.DB() or
\* AutoMigrate may fail and return before the worker is launched.  Records
\* still in the replaced channel stay there: every reader and writer uses the
\* package variable.
\* mutant: the worker is launched before the collaborator is checked
StartLaunchesFirst(res) ==
    /\ starts < MaxStarts
    /\ starts' = starts + 1
    /\ startRes' = res
    /\ made' = TRUE
    /\ buffer' = << >>
    /\ closed' = FALSE
    /\ orphaned' = orphaned \o buffer
    /\ workers' = Append(workers, NewWorker)
    /\ UNCHANGED <<prodVars, lastEvent, tasks, store, atClose>>

Start(res) ==
    /\ starts < MaxStarts
    /\ starts' = starts + 1
    /\ startRes' = res
    /\ made' = TRUE
    /\ buffer' = << >>
    /\ closed' = FALSE
    /\ orphaned' = orphaned \o buffer
    /\ workers' = IF res = "ok" THEN Append(workers, NewWorker) ELSE workers
    /\ UNCHANGED <<prodVars, lastEvent, tasks, store, atClose>>

StartOk == Start("ok")

StartErrDB == Start("errDB")

StartErrMigrate == Start("errMigrate")

\* ---- startWorker ---------------------------------------------------------
\* the worker is at its select: flush has returned, because it only starts
\* the writer goroutine (go func) and does not wait for it
\* mutant: flush runs the write itself and returns when it has finished
WorkerReadyAfterWrites(w) ==
    workers[w].pc = "select" /\ \A t \in 1..Len(tasks) : tasks[t].pc = "done"

WorkerReady(w) == workers[w].pc = "select"

\* if len(buf) >= batchSize
\* mutant: the threshold test is strict
SizeReachedStrict(len) == len > BatchSize

SizeReached(len) == len >= BatchSize

\* if len(buf) > 0 (ticker case and closed case)
\* mutant: a batch of one record is not flushed
NonEmptyOffByOne(len) == len > 1

NonEmpty(len) == len > 0

\* ---- startWorker: case log, ok := <-buffer (ok) -------------------------
Recv(w) ==
    /\ WorkerReady(w)
    /\ buffer # << >>
    /\ buffer' = Tail(buffer)
    /\ lastEvent' = "recv"
    /\ LET arr == [workers[w].arr EXCEPT ![workers[w].len + 1] = Head(buffer)]
           len == workers[w].len + 1
       IN  IF SizeReached(len)
             THEN /\ tasks' = flush(tasks, w, Slice(arr, 0, len))
                  /\ workers' = [workers EXCEPT ![w].arr = arr, ![w].len = 0]
             ELSE /\ tasks' = tasks
                  /\ workers' = [workers EXCEPT ![w].arr = arr, ![w].len = len]
    /\ UNCHANGED <<made, closed, orphaned, prodVars, store, atClose, startVars>>

WorkerRecv == \E w \in 1..Len(workers) : Recv(w)

\* ---- startWorker: case log, ok := <-buffer (!ok) ------------------------
\* a receive yields ok = false only when the closed channel holds no record
\* mutant: the worker stops as soon as the channel is closed
ChannelDrainedAtClose(q) == TRUE

ChannelDrained(q) == q = << >>

RecvClosed(w) ==
    /\ WorkerReady(w)
    /\ ChannelDrained(buffer)
    /\ closed
    /\ lastEvent' = "closed"
    /\ tasks' = IF NonEmpty(workers[w].len) THEN flush(tasks, w, BufOf(w)) ELSE tasks
    /\ workers' = [workers EXCEPT ![w].pc = "done"]
    /\ UNCHANGED <<chanVars, prodVars, store, atClose, startVars>>

WorkerClosed == \E w \in 1..Len(workers) : RecvClosed(w)

\* ---- startWorker: case <-ticker.C ---------------------------------------
\* mutant: the ticker case does not flush
WorkerTickIgnored ==
    /\ \E w \in 1..Len(workers) : WorkerReady(w)
    /\ lastEvent' = "tick"
    /\ UNCHANGED <<chanVars, prodVars, workers, tasks, store, atClose, startVars>>

Tick(w) ==
    /\ WorkerReady(w)
    /\ lastEvent' = "tick"
    /\ IF NonEmpty(workers[w].len)
         THEN /\ tasks' = flush(tasks, w, BufOf(w))
              /\ workers' = [workers EXCEPT ![w].len = 0]
         ELSE /\ tasks' = tasks
              /\ workers' = workers
    /\ UNCHANGED <<chanVars, prodVars, store, atClose, startVars>>

WorkerTick == \E w \in 1..Len(workers) : Tick(w)

\* ---- flush goroutine: retry loop and flushWithRetry ----------------------
Range(s) == {s[k] : k \in 1..Len(s)}

\* batchSize := min(500, len(logs))
ChunkSize(n) == Min(MaxChunkSize, n)

\* end := min(i+batchSize, len(logs))
\* mutant: the end of the chunk is not clamped to len(logs)
ChunkEndNoClamp(i, n) == i + ChunkSize(n)

ChunkEnd(i, n) == Min(i + ChunkSize(n), n)

\* the loop of flushWithRetry as a function: the <<i, end>> of every chunk
\* of a slice of n records under a chunk limit, when no write fails
RECURSIVE LoopChunks(_, _, _)
LoopChunks(i, n, limit) ==
    IF i >= n THEN << >>
    ELSE << <<i, Min(i + Min(limit, n), n)>> >> \o LoopChunks(i + Min(limit, n), n, limit)

\* time.Sleep(time.Duration(attempt) * time.Second), in seconds
\* mutant: constant delay instead of a linear one
BackoffDelayConstant(attempt) == BaseDelay

BackoffDelay(attempt) == attempt * BaseDelay

\* attempt == maxRetries: give up after this failed attempt
\* mutant: gives up one attempt early
LastAttemptEarly(attempt) == attempt >= MaxRetries - 1

\* mutant: never gives up
LastAttemptNever(attempt) == FALSE

LastAttempt(attempt) == attempt = MaxRetries

\* db.CreateInBatches(batch, batchSize) inserted the rows of batch
Insert(st, batch) ==
    [r \in Records |-> IF r \in Range(batch) THEN st[r] + 1 ELSE st[r]]

\* one iteration of the chunk loop of flushWithRetry, with the result o of
\* db.CreateInBatches, followed by what the retry loop of flush does with it.
\* The chunk is read from the backing array the worker keeps appending to;
\* the read is unsynchronised, and the values it can yield (the record of the
\* hand-off or a record appended later) arise from the interleaving with
\* WorkerRecv.  A failed CreateInBatches inserts nothing (one INSERT).
WriteChunk(t, o) ==
    /\ t \in 1..Len(tasks)
    /\ tasks[t].pc = "write"
    /\ LET tk    == tasks[t]
           end   == ChunkEnd(tk.i, tk.n)
           batch == Slice(workers[tk.w].arr, tk.i, end)   \* batch := logs[i:end]
           base  == [tk EXCEPT !.calls = IF tk.i = 0 THEN @ + 1 ELSE @,
                               !.chunks = Append(@, <<tk.i, end>>)]
           nexti == tk.i + ChunkSize(tk.n)
       IN  CASE o = "ok" ->
                  /\ store' = Insert(store, batch)
                  /\ tasks' = [tasks EXCEPT ![t] =
                        IF nexti < tk.n
                          THEN [base EXCEPT !.i = nexti]
                          ELSE [base EXCEPT !.i = nexti, !.pc = "done",
                                            !.okLogs = @ + 1,
                                            !.logged = tk.n,
                                            !.outcome = "success"]]
            [] o = "err" ->
                  /\ store' = store
                  /\ tasks' = [tasks EXCEPT ![t] =
                        IF LastAttempt(tk.attempt)
                          THEN [base EXCEPT !.pc = "done",
                                            !.failLogs = @ + 1,
                                            !.outcome = "failed"]
                          ELSE [base EXCEPT !.pc = "sleep",
                                            !.delays = Append(@, BackoffDelay(tk.attempt))]]
            [] o = "panic" ->
                  /\ store' = store
                  /\ tasks' = [tasks EXCEPT ![t] =
                        [base EXCEPT !.pc = "done", !.outcome = "panic"]]
    /\ UNCHANGED <<chanVars, prodVars, workers, lastEvent, atClose, startVars>>

\* for i := 0; ...: every call of flushWithRetry starts at the first record
\* mutant: a retry resumes at the chunk that failed
RetryStartResume(i) == i

RetryStart(i) == 0

\* time.Sleep returns; continue: attempt++ and flushWithRetry starts over
Wake(t) ==
    /\ t \in 1..Len(tasks)
    /\ tasks[t].pc = "sleep"
    /\ tasks' = [tasks EXCEPT ![t] = [@ EXCEPT !.attempt = @ + 1,
                                               !.i = RetryStart(@),
                                               !.chunks = << >>,
                                               !.pc = "write"]]
    /\ UNCHANGED <<chanVars, prodVars, workers, lastEvent, store, atClose, startVars>>

WriteOk == \E t \in 1..Len(tasks) : WriteChunk(t, "ok")

WriteErr == \E t \in 1..Len(tasks) : WriteChunk(t, "err")

\* mutant: no deferred recover, the panic of one writer ends the process
WritePanicUnrecovered ==
    /\ \E t \in 1..Len(tasks) : tasks[t].pc = "write"
    /\ tasks' = [t \in 1..Len(tasks) |->
                    [tasks[t] EXCEPT !.pc = "done", !.outcome = "panic"]]
    /\ workers' = [w \in 1..Len(workers) |-> [workers[w] EXCEPT !.pc = "done"]]
    /\ UNCHANGED <<chanVars, prodVars, lastEvent, store, atClose, startVars>>

WritePanic == \E t \in 1..Len(tasks) : WriteChunk(t, "panic")

WakeAny == \E t \in 1..Len(tasks) : Wake(t)

\* ---- specifications ------------------------------------------------------
\* what no call of Start changes
InitCommon ==
    /\ buffer = << >>
    /\ closed = FALSE
    /\ orphaned = << >>
    /\ nextId = 1
    /\ accepted = << >>
    /\ dropped = {}
    /\ panicked = FALSE
    /\ lastEvent = "none"
    /\ tasks = << >>
    /\ store = [r \in Records |-> 0]
    /\ atClose = << >>
    /\ req = NoRequest

\* the pipeline as main sets it up: Start has been called once and returned
\* nil, so the channel is made and one worker is at its select
Init ==
    /\ InitCommon
    /\ made = TRUE
    /\ workers = << NewWorker >>
    /\ starts = 1
    /\ startRes = "ok"

Next ==
    \/ Submit
    \/ Close
    \/ WorkerRecv
    \/ WorkerClosed
    \/ WorkerTick
    \/ WriteOk
    \/ WriteErr
    \/ WritePanic
    \/ WakeAny

Spec == Init /\ [][Next]_vars

\* The worker goroutine is scheduled, and a select with a ready receive case
\* takes it eventually (the choice among ready cases is uniformly random).
\* Nothing is assumed about the writers or the store.
FairSpec == Spec /\ WF_vars(WorkerRecv)

\* The ticker fires every FlushInterval while the worker runs, and the
\* scheduled worker takes the ready ticker case eventually.
TickFairSpec == Spec /\ WF_vars(WorkerTick)

\* the package as loaded: `buffer` is nil and Start has not been called
InitLoaded ==
    /\ InitCommon
    /\ made = FALSE
    /\ workers = << >>
    /\ starts = 0
    /\ startRes = "none"

\* every call of Start, with every result, at any time, and requests that
\* arrive whatever the state of the channel
NextStart ==
    \/ Next
    \/ StartOk
    \/ StartErrDB
    \/ StartErrMigrate
    \/ SubmitAfterClose

StartSpec == InitLoaded /\ [][NextStart]_vars

\* the started pipeline with the middleware handler taken branch by branch
NextMw ==
    \/ MwRequest
    \/ MwChain
    \/ MwSend
    \/ Close
    \/ WorkerRecv
    \/ WorkerClosed
    \/ WorkerTick
    \/ WriteOk
    \/ WriteErr
    \/ WritePanic
    \/ WakeAny

MwSpec == Init /\ [][NextMw]_vars

\* ==== properties ===========================================================
\* the batches handed to writer goroutines, in hand-off order
Handed == [t \in 1..Len(tasks) |-> tasks[t].handoff]

\* the batch in progress: the worker's local slice while the worker runs
InProgress == IF workerPc = "select" THEN buf ELSE << >>

SubmittedSoFar == [k \in 1..(nextId - 1) |-> k]

\* a step of the middleware's send statement
IsSubmit == nextId' # nextId

\* a step in which the worker received a record from the channel
IsRecv == Len(buffer') < Len(buffer)

\* a writer goroutine that has been spawned and has not returned
Live(t) == tasks[t].pc # "done"

\* C1: every record the channel accepted is in exactly one place: one batch
\* handed to a writer, the batch in progress, or the channel; the hand-off
\* order followed by the batch in progress and the channel is the enqueue
\* order.  If no send found the channel full, the accepted records are all
\* submitted records, and once the worker has returned they are all in
\* handed batches.
C1_EveryRecordInExactlyOneBatchInOrder ==
    /\ Flatten(Handed) \o InProgress \o buffer = accepted
    /\ dropped = {} => accepted = SubmittedSoFar
    /\ workerPc = "done" => Flatten(Handed) = accepted

C1_Witness ==
    /\ workerPc = "done"
    /\ dropped = {}
    /\ nextId = MaxRecords + 1
    /\ Len(tasks) >= 2
    /\ Flatten(Handed) = SubmittedSoFar

\* C2: while a writer goroutine has not finished, the records it reads
\* through its slice are the records the batch held at hand-off.
C2_WriterSeesHandoffRecords ==
    \A t \in 1..Len(tasks) :
        Live(t) => Slice(bufArr, 0, tasks[t].n) = tasks[t].handoff

\* C3: a send that finds BufferSize records in the channel completes in one
\* step, enqueues nothing and changes nothing but the drop history; and the
\* send statement is never blocked while producers exist.
C3_FullQueueSubmitDropsWithoutBlocking ==
    /\ [][(IsSubmit /\ Len(buffer) = BufferSize) =>
            /\ buffer' = buffer
            /\ accepted' = accepted
            /\ dropped' = dropped \cup {nextId}
            /\ nextId' = nextId + 1
            /\ UNCHANGED <<closed, workerPc, lastEvent, bufArr, bufLen,
                           tasks, store, atClose>>]_vars
    /\ []((~closed /\ nextId <= MaxRecords) => ENABLED Submit)

C3_Witness ==
    /\ dropped # {}
    /\ Len(buffer) = BufferSize
    /\ nextId - 1 \in dropped

\* C4: the channel never holds more than BufferSize records.
C4_QueueBounded == Len(buffer) <= BufferSize

C4_Witness ==
    /\ Len(buffer) = BufferSize
    /\ Cardinality(dropped) >= 1
    /\ workerPc = "select"
    /\ ~closed

\* C5: once the worker has returned after the channel was closed, the write
\* of every record that was in the channel or in the batch in progress at
\* close time has completed (its writer goroutine has finished).
C5_ShutdownFlushCompletesBeforeWorkerReturns ==
    workerPc = "done" =>
        \A t \in 1..Len(tasks) :
            Range(tasks[t].handoff) \cap Range(atClose) # {} => ~Live(t)

\* C6: no record is inserted into the store more than once, and no record
\* of a batch reported as dropped has been inserted.
C6_PersistedAtMostOnceAndNotIfDropped ==
    /\ \A r \in Records : store[r] <= 1
    /\ \A t \in 1..Len(tasks) :
          tasks[t].outcome = "failed" =>
              \A r \in Range(tasks[t].handoff) : store[r] = 0

\* C7: a receive that brings the batch to BatchSize records spawns exactly
\* one writer, handed exactly those BatchSize records, and empties the
\* batch in the same step; while the worker waits in its select the batch
\* holds fewer than BatchSize records.
C7_SizeTriggerFlushesOnceAndResets ==
    /\ [][(IsRecv /\ bufLen + 1 = BatchSize) =>
            /\ Len(tasks') = Len(tasks) + 1
            /\ SubSeq(tasks', 1, Len(tasks)) = tasks
            /\ tasks'[Len(tasks')].handoff = Append(buf, Head(buffer))
            /\ tasks'[Len(tasks')].n = BatchSize
            /\ bufLen' = 0]_vars
    /\ [][(IsRecv /\ bufLen + 1 < BatchSize) =>
            /\ tasks' = tasks
            /\ buf' = Append(buf, Head(buffer))]_vars
    /\ [](workerPc = "select" => bufLen < BatchSize)

C7_Witness ==
    /\ Len(tasks) = 1
    /\ tasks[1].n = BatchSize
    /\ tasks[1].handoff = [k \in 1..BatchSize |-> k]
    /\ bufLen = 0
    /\ lastEvent = "recv"

\* a step in which the worker took the ticker case
IsTick ==
    /\ workerPc' = "select"
    /\ buffer' = buffer
    /\ \/ lastEvent # "tick" /\ lastEvent' = "tick"
       \/ Len(tasks') > Len(tasks)

\* C8: a tick with a non-empty batch spawns exactly one writer, handed all
\* and only the batched records, and empties the batch; a tick with an
\* empty batch spawns nothing and leaves the worker's state as it was.
C8_TickFlushesNonEmptyBatchOnly ==
    [][IsTick =>
         IF bufLen > 0
           THEN /\ Len(tasks') = Len(tasks) + 1
                /\ SubSeq(tasks', 1, Len(tasks)) = tasks
                /\ tasks'[Len(tasks')].handoff = buf
                /\ tasks'[Len(tasks')].n = bufLen
                /\ bufLen' = 0
           ELSE /\ tasks' = tasks
                /\ UNCHANGED <<bufLen, bufArr, workerPc, buffer, store>>]_vars

C8_Witness ==
    /\ lastEvent = "tick"
    /\ Len(tasks) = 2
    /\ tasks[1].n = 1
    /\ tasks[2].n = 1
    /\ bufLen = 0

\* a step of a writer goroutine
IsWriterStep == Len(tasks') = Len(tasks) /\ tasks' # tasks

\* C9: a writer reports failure only after exactly MaxRetries failed
\* attempts, reports it once, never attempts more than MaxRetries times,
\* does nothing after it has finished, and its steps change no variable of
\* the producers or of the worker loop.
C9_PersistentFailureThreeAttemptsThenDrop ==
    /\ [](\A t \in 1..Len(tasks) :
            /\ tasks[t].calls <= MaxRetries
            /\ tasks[t].failLogs = (IF tasks[t].outcome = "failed" THEN 1 ELSE 0)
            /\ tasks[t].outcome = "failed" =>
                  /\ tasks[t].calls = MaxRetries
                  /\ tasks[t].attempt = MaxRetries
                  /\ tasks[t].okLogs = 0
                  /\ ~Live(t))
    /\ [][\A t \in 1..Len(tasks) : ~Live(t) => tasks'[t] = tasks[t]]_vars
    /\ [][IsWriterStep =>
            UNCHANGED <<buffer, closed, nextId, accepted, dropped, workerPc,
                        lastEvent, bufArr, bufLen, atClose>>]_vars

C9_Witness ==
    \E t \in 1..Len(tasks) :
        /\ tasks[t].outcome = "failed"
        /\ tasks[t].calls = MaxRetries
        /\ tasks[t].failLogs = 1
        /\ \A r \in Range(tasks[t].handoff) : store[r] = 0

\* C10: the wait after failed attempt k (k < MaxRetries) is k * BaseDelay, so
\* the waits of one flush are strictly increasing; there is one wait per
\* failed attempt that is followed by another attempt and none after the
\* last failed attempt or after a success.
C10_LinearBackoffBetweenAttempts ==
    \A t \in 1..Len(tasks) :
        LET tk == tasks[t] IN
        /\ \A k \in 1..Len(tk.delays) : tk.delays[k] = k * BaseDelay
        /\ \A k \in 1..(Len(tk.delays) - 1) : tk.delays[k] < tk.delays[k + 1]
        /\ Len(tk.delays) <= MaxRetries - 1
        /\ Len(tk.delays) = (IF tk.pc = "sleep" THEN tk.attempt ELSE tk.attempt - 1)
        /\ tk.pc = "done" => Len(tk.delays) = tk.calls - 1

C10_Witness ==
    \E t \in 1..Len(tasks) :
        /\ tasks[t].outcome = "failed"
        /\ tasks[t].delays = <<BaseDelay, 2 * BaseDelay>>

CeilDiv(n, m) == (n + m - 1) \div m

\* the records of the hand-off that the chunks cover, in write order
RECURSIVE ChunkRecords(_, _)
ChunkRecords(logs, cs) ==
    IF cs = << >> THEN << >>
    ELSE SubSeq(logs, Head(cs)[1] + 1, Head(cs)[2]) \o ChunkRecords(logs, Tail(cs))

ChunkLengths(cs) == [k \in 1..Len(cs) |-> cs[k][2] - cs[k][1]]

\* C11: the chunk writes of one attempt are consecutive, non-overlapping
\* slices of the batch, each of 1..MaxChunkSize records, starting at the
\* first record; an attempt in which every write succeeds issues
\* ceil(n / MaxChunkSize) of them and together they are the batch.  With
\* the limit of the source, 1200 records are written as 500, 500, 200.
C11_ChunksPartitionTheBatch ==
    /\ \A t \in 1..Len(tasks) :
          LET tk == tasks[t]
              cs == tk.chunks
          IN  /\ \A k \in 1..Len(cs) :
                    /\ cs[k][2] - cs[k][1] >= 1
                    /\ cs[k][2] - cs[k][1] <= MaxChunkSize
                    /\ cs[k][2] <= tk.n
                    /\ cs[k][1] = (IF k = 1 THEN 0 ELSE cs[k - 1][2])
              /\ tk.outcome = "success" =>
                    /\ Len(cs) = CeilDiv(tk.n, MaxChunkSize)
                    /\ cs = LoopChunks(0, tk.n, MaxChunkSize)
                    /\ ChunkRecords(tk.handoff, cs) = tk.handoff
    /\ ChunkLengths(LoopChunks(0, 1200, SourceChunkLimit)) = <<500, 500, 200>>

C11_Witness ==
    \E t \in 1..Len(tasks) :
        /\ tasks[t].outcome = "success"
        /\ tasks[t].n = BatchSize
        /\ Len(tasks[t].chunks) >= 2
        /\ tasks[t].calls = 1

\* C12: a failed chunk write is the last write of its attempt and inserts
\* nothing; the writer then only sleeps or ends, and the attempt after the
\* sleep starts at the first record of the batch, not at the failed chunk.
C12_FailedChunkAbortsAttemptRetryFromStart ==
    /\ [](\A t \in 1..Len(tasks) :
            tasks[t].pc = "write" =>
                tasks[t].i = (IF tasks[t].chunks = << >> THEN 0
                              ELSE tasks[t].chunks[Len(tasks[t].chunks)][2]))
    /\ [][\A t \in 1..Len(tasks) :
            (/\ tasks[t].pc = "write"
             /\ tasks'[t].pc = "sleep" \/ tasks'[t].outcome = "failed") =>
                /\ store' = store
                /\ tasks'[t].chunks =
                      Append(tasks[t].chunks,
                             <<tasks[t].i, ChunkEnd(tasks[t].i, tasks[t].n)>>)]_vars
    /\ [][\A t \in 1..Len(tasks) :
            tasks[t].pc = "sleep" =>
                \/ tasks'[t] = tasks[t]
                \/ /\ tasks'[t].pc = "write"
                   /\ tasks'[t].i = 0
                   /\ tasks'[t].chunks = << >>
                   /\ tasks'[t].attempt = tasks[t].attempt + 1]_vars
    /\ [][\A t \in 1..Len(tasks) :
            tasks[t].outcome = "failed" => tasks'[t].chunks = tasks[t].chunks]_vars

C12_Witness ==
    \E t \in 1..Len(tasks) :
        /\ tasks[t].attempt = 2
        /\ tasks[t].pc = "sleep"
        /\ Len(tasks[t].chunks) >= 2
        /\ tasks[t].chunks[1][1] = 0

\* C13: whatever the writer goroutines are doing (writing, sleeping in
\* backoff, none finished), a worker at its select with a record in the
\* channel can receive it, and with a fair worker every record in the
\* channel is eventually dequeued.
C13_SlowWritersNeverStallTheWorker ==
    /\ []((workerPc = "select" /\ buffer # << >>) => ENABLED WorkerRecv)
    /\ \A r \in Records : (r \in Range(buffer)) ~> (r \notin Range(buffer))

C13_Witness ==
    /\ lastEvent = "recv"
    /\ bufLen >= 1
    /\ \E t \in 1..Len(tasks) : tasks[t].pc = "sleep"
    /\ \E t \in 1..Len(tasks) : tasks[t].pc = "write"

\* C14: a writer that panicked or exhausted its retries has ended and does
\* nothing more; a step of a writer changes that writer only and nothing of
\* the worker loop; the worker can still take its select cases, and every
\* writer that is about to write can still succeed, whatever became of the
\* writers before it.
C14_WriterFaultsStayInsideTheWriter ==
    /\ [](\A t \in 1..Len(tasks) :
            tasks[t].outcome = "panic" =>
                /\ tasks[t].pc = "done"
                /\ tasks[t].okLogs = 0
                /\ tasks[t].failLogs = 0)
    /\ [][\A t \in 1..Len(tasks) :
            tasks[t].outcome \in {"panic", "failed"} => tasks'[t] = tasks[t]]_vars
    /\ [][IsWriterStep =>
            /\ UNCHANGED <<workerPc, lastEvent, bufArr, bufLen, buffer>>
            /\ Cardinality({t \in 1..Len(tasks) : tasks'[t] # tasks[t]}) = 1]_vars
    /\ [](workerPc = "select" => ENABLED WorkerTick)
    /\ [](\A t \in 1..Len(tasks) :
            tasks[t].pc = "write" => ENABLED WriteChunk(t, "ok"))

C14_Witness ==
    /\ Len(tasks) >= 3
    /\ tasks[1].outcome = "panic"
    /\ tasks[2].outcome = "failed"
    /\ tasks[3].outcome = "success"
    /\ workerPc = "select"

Suffix(s, n) == SubSeq(s, Len(s) - n + 1, Len(s))

\* C15: in every state of the pipeline (Start not called, Start failed,
\* running, channel full, writes failing, channel closed) a request can
\* complete its send in one step, and no send has panicked.
C15_SubmitNeverBlocksNorFaults ==
    /\ nextId <= MaxRecords => ENABLED (Submit \/ SubmitAfterClose)
    /\ ~panicked

\* a step that is a call of Start
IsStart == starts' = starts + 1

\* the calls of Start so far that returned nil: each launched one worker
StartedOk == Len(workers)

\* no record has left a channel, and so none has reached a writer or the store
NothingDequeued ==
    /\ Len(accepted) = Len(buffer) + Len(orphaned)
    /\ tasks = << >>
    /\ \A r \in Records : store[r] = 0

\* C16 as stated: a call of Start that fails has failed in the schema
\* initialization (AutoMigrate); whenever the last call of Start returned an
\* error no worker has been launched and no record has been dequeued or
\* persisted; whenever it returned nil the channel is made and exactly one
\* worker has been launched.
C16_StartFailsOnlyOnMigrateAndThenNothingRuns ==
    /\ startRes \notin {"none", "ok"} => startRes = "errMigrate"
    /\ startRes \notin {"none", "ok"} => workers = << >> /\ NothingDequeued
    /\ startRes = "ok" => made /\ Len(buffer) <= BufferSize /\ Len(workers) = 1

\* C16, amended: a call of Start fails if cfg.DB.DB() or AutoMigrate fails,
\* and only then; a call that fails launches no worker, and as long as no
\* call has returned nil no record is dequeued or persisted; a call that
\* returns nil has installed a new, empty, open channel of capacity
\* BufferSize and launched exactly one worker, which is at its select with
\* an empty batch.
C16_StartErrorLaunchesNothingOkLaunchesOne ==
    /\ [](StartedOk = 0 => NothingDequeued)
    /\ [](made => Len(buffer) <= BufferSize)
    /\ [][IsStart =>
            /\ made' /\ buffer' = << >> /\ ~closed'
            /\ startRes' \in {"errDB", "errMigrate"} => workers' = workers
            /\ startRes' \notin {"errDB", "errMigrate"} =>
                  /\ startRes' = "ok"
                  /\ workers' = Append(workers, NewWorker)
                  /\ CanSend(buffer')]_vars

\* the first call of Start failed in cfg.DB.DB(), requests filled its channel
\* and one was dropped, nothing was dequeued; the second call returned nil
\* and launched the only worker
C16_Witness ==
    /\ starts = 2
    /\ startRes = "ok"
    /\ Len(workers) = 1
    /\ workerPc = "select"
    /\ Len(orphaned) = BufferSize
    /\ dropped # {}
    /\ NothingDequeued

\* C17: after the close the worker cannot return while the channel holds a
\* record and can still receive; when it has returned, the channel is empty,
\* the records that were in the batch and the channel at close time are, in
\* that order, the last records handed to writers, and the batch it held is
\* the last batch handed; its return changes no writer, and writers are
\* still unfinished and able to go on after it.
C17_ShutdownDrainsQueueInOrder ==
    /\ []((closed /\ workerPc = "select" /\ buffer # << >>) =>
            (ENABLED WorkerRecv /\ ~ENABLED WorkerClosed))
    /\ [](workerPc = "done" =>
            /\ closed
            /\ buffer = << >>
            /\ Len(atClose) <= Len(Flatten(Handed))
            /\ Suffix(Flatten(Handed), Len(atClose)) = atClose
            /\ bufLen > 0 => tasks[Len(tasks)].handoff = buf)
    /\ [][(workerPc = "select" /\ workerPc' = "done") =>
            SubSeq(tasks', 1, Len(tasks)) = tasks]_vars
    /\ [](\A t \in 1..Len(tasks) :
            (workerPc = "done" /\ tasks[t].pc = "sleep") => ENABLED Wake(t))

C17_Witness ==
    /\ workerPc = "done"
    /\ Len(atClose) = MaxRecords
    /\ Len(tasks) >= 2
    /\ \E t \in 1..Len(tasks) : tasks[t].pc = "write"
    /\ \E t \in 1..Len(tasks) : tasks[t].pc = "sleep"

\* C18: with a fair ticker every record in the batch in progress is
\* eventually in a batch handed to a writer, and the batch is empty after
\* every tick.
C18_BatchedRecordEventuallyHanded ==
    /\ \A r \in Records :
          (r \in Range(InProgress)) ~> (r \in Range(Flatten(Handed)))
    /\ [][IsTick => bufLen' = 0]_vars

C18_Witness ==
    /\ lastEvent = "tick"
    /\ ~closed
    /\ bufLen = 0
    /\ Len(tasks) >= 1
    /\ tasks[Len(tasks)].n < BatchSize
    /\ Flatten(Handed) = accepted

\* the most steps a writer can still take: the chunk writes left in this
\* attempt, and a sleep and all chunk writes for every attempt after it
Rank(tk) ==
    IF tk.pc = "done" THEN 0
    ELSE (MaxRetries - tk.attempt) * (CeilDiv(tk.n, MaxChunkSize) + 1)
         + (IF tk.pc = "write" THEN CeilDiv(tk.n - tk.i, ChunkSize(tk.n)) ELSE 0)

\* the workers that have not returned: each reads the package variable
\* `buffer` at its select and owns a batch in progress
Running == {w \in 1..Len(workers) : workers[w].pc = "select"}

\* C19: whatever calls of Start are made, at most one worker consumes from
\* the current channel, and no accepted record is left in a channel that no
\* worker reads.
C19_AtMostOneWorkerAndNoRecordStranded ==
    /\ Cardinality(Running) <= 1
    /\ orphaned = << >>

\* C20: every step of a writer lowers a rank that is never negative, so a
\* writer whose calls return ends; it makes at most MaxRetries attempts and
\* MaxRetries - 1 sleeps; unless it panicked it ends with exactly one report:
\* a success log with len(logs) after the first attempt whose chunks all
\* succeeded, and then nothing more, or one failure log after attempt
\* MaxRetries.
C20_WriterTerminatesWithOneOutcome ==
    /\ [][\A t \in 1..Len(tasks) :
            tasks'[t] # tasks[t] => Rank(tasks'[t]) < Rank(tasks[t])]_vars
    /\ [](\A t \in 1..Len(tasks) :
            LET tk == tasks[t] IN
            /\ Rank(tk) >= 0
            /\ tk.attempt <= MaxRetries
            /\ tk.calls <= MaxRetries
            /\ Len(tk.delays) <= MaxRetries - 1
            /\ (tk.pc = "done") = (tk.outcome # "none")
            /\ tk.okLogs = (IF tk.outcome = "success" THEN 1 ELSE 0)
            /\ tk.failLogs = (IF tk.outcome = "failed" THEN 1 ELSE 0)
            /\ tk.outcome = "success" =>
                  /\ tk.logged = Len(tk.handoff)
                  /\ tk.calls = tk.attempt
                  /\ Len(tk.delays) = tk.attempt - 1
                  /\ tk.chunks = LoopChunks(0, tk.n, MaxChunkSize)
            /\ tk.outcome = "failed" => tk.attempt = MaxRetries)
    /\ [][\A t \in 1..Len(tasks) :
            tasks[t].outcome = "success" => tasks'[t] = tasks[t]]_vars

C20_Witness ==
    /\ Len(tasks) >= 2
    /\ \E t \in 1..Len(tasks) :
          /\ tasks[t].outcome = "success"
          /\ tasks[t].attempt = 2
          /\ tasks[t].logged = tasks[t].n
    /\ \E t \in 1..Len(tasks) :
          /\ tasks[t].outcome = "failed"
          /\ Len(tasks[t].delays) = MaxRetries - 1

\* the writer goroutines that have not returned (writing or backing off)
InFlight == {t \in 1..Len(tasks) : Live(t)}

\* a step that spawns one writer goroutine, at its first attempt, and leaves
\* every earlier writer as it was
SpawnsOne ==
    /\ Len(tasks') = Len(tasks) + 1
    /\ SubSeq(tasks', 1, Len(tasks)) = tasks
    /\ tasks'[Len(tasks')].pc = "write"
    /\ tasks'[Len(tasks')].attempt = 1

\* C21: the number of writer goroutines in flight is not capped: whenever a
\* flush trigger is due (a receive that fills the batch, a tick or the close
\* with a non-empty batch), the worker can take it and it spawns a new writer,
\* however many earlier writers are still writing or backing off.
C21_EveryFlushTriggerSpawnsWhateverIsInFlight ==
    /\ workerPc = "select" /\ bufLen > 0 =>
          ENABLED (WorkerTick /\ SpawnsOne)
    /\ workerPc = "select" /\ buffer # << >> /\ bufLen + 1 >= BatchSize =>
          ENABLED (WorkerRecv /\ SpawnsOne)
    /\ workerPc = "select" /\ closed /\ buffer = << >> /\ bufLen > 0 =>
          ENABLED (WorkerClosed /\ SpawnsOne)

\* as many writers in flight as there are records, some writing and some
\* backing off, the last one spawned while the others were in flight
C21_Witness ==
    /\ Cardinality(InFlight) = MaxRecords
    /\ \E t \in InFlight : tasks[t].pc = "sleep"
    /\ \E t \in InFlight : tasks[t].pc = "write"

\* C22: the middleware attempts to enqueue a record for a request if and only
\* if Filter returned true and the user id and the token are both non-empty;
\* in every branch (filtered out, identity missing, traced, channel full) the
\* handler chain runs exactly once, and the one attempt is made only after
\* the chain has returned.
C22_EnqueueIffTracedAndChainRunsOnceFirst ==
    /\ [](req.attempts >= 1 =>
             req.filter /\ req.userID # "" /\ req.token # "")
    /\ [](req.pc = "done" /\ req.filter /\ req.userID # "" /\ req.token # "" =>
             req.attempts = 1)
    /\ [](req.nexts <= 1 /\ req.attempts <= 1)
    /\ [](req.pc = "done" => req.nexts = 1)
    /\ [][req'.attempts > req.attempts =>
             req.nexts = 1 /\ req'.nexts = 1]_vars
    /\ [][req'.nexts > req.nexts => req'.attempts = req.attempts]_vars

\* a traced request whose handler chain has run found the channel full: its
\* one attempt took the default branch and its record was dropped
C22_Witness ==
    /\ req.pc = "done"
    /\ req.filter /\ req.userID # "" /\ req.token # ""
    /\ req.nexts = 1
    /\ req.attempts = 1
    /\ Len(buffer) = BufferSize
    /\ (nextId - 1) \in dropped

====
